---- MODULE Spec2Model ----
(***************************************************************************)
(* A model of main.js: a UDP DNS forwarder with an in-memory cache whose   *)
(* answers decay with elapsed time, a DoH upstream reached through a       *)
(* rate-limited retrying fetch, and a secondary UDP resolver for the names *)
(* that contain process.env.OMIT.                                          *)
(*                                                                         *)
(* JavaScript runs one callback at a time: every action below is the code  *)
(* that runs between two awaits of a handler, or the event that settles    *)
(* the promise a handler awaits.                                           *)
(*                                                                         *)
(* Numbers that may be fractional in the code (elapsedSeconds, the ttl of  *)
(* an answer after updateTTLs) are held in thousandths: Whole(1) is the    *)
(* JavaScript number 1 and 500 is 0.5.                                     *)
(***************************************************************************)
EXTENDS Integers, Sequences, FiniteSets, TLC

\* ---------------------------------------------------------------- bounds
MaxDatagrams == 2   \* datagrams received in one run
MaxNow == 2000      \* last value of Date.now()
TickMs == 500       \* the clock's step, in ms
MaxTTL == 2         \* largest ttl (seconds) in an upstream answer

\* ------------------------------------------------------ program constants
MsPerSec == 1000        \* (Date.now() - cached.timestamp) / 1000
maxConcurrent == 1      \* Bottleneck maxConcurrent
minTime == 100          \* Bottleneck minTime, ms
retries == 3            \* fetchWithRetry(..., 3, 5000)
backoff == 500          \* setTimeout(resolve, 500)

\* One handler (one call of the "message" callback) per datagram, named by
\* the datagram's number in arrival order.
Handlers == 1..MaxDatagrams

\* The JavaScript whole number n, in thousandths.
Whole(n) == n * MsPerSec

Max(a, b) == IF a >= b THEN a ELSE b

\* ------------------------------------------------------------ the messages
\* A name is its sequence of labels; OMIT is the configured pattern.
OMIT == <<"omit">>
PlainName == <<"a", "com">>
OmitName == <<"x", "omit">>

\* The question sequences a datagram may carry (the empty one: QDCOUNT = 0).
QuestionSeqs ==
  { <<>>,
    << [name |-> PlainName] >>,
    << [name |-> PlainName], [name |-> OmitName] >> }

\* The n-th datagram: bytes that decode to a query, or bytes on which decode
\* throws. Every query carries its own header id, here n.
Datagrams(n) ==
  { [ok |-> TRUE, query |-> [id |-> n, questions |-> qs]] : qs \in QuestionSeqs }
  \cup { [ok |-> FALSE, query |-> [id |-> n, questions |-> <<>>]] }

\* An answer record: its ttl and the kind of JavaScript value of its rdata
\* ("string" for an A record; "buffer" for TXT and unknown types; "object"
\* is what a Buffer becomes in a JSON copy).
ARecord(t) == [ttl |-> Whole(t), data |-> "string"]
TXTRecord(t) == [ttl |-> Whole(t), data |-> "buffer"]

\* The answer sections an upstream may return.
UpstreamAnswers ==
  { <<>>, << ARecord(MaxTTL), ARecord(1) >>, << TXTRecord(1) >> }

\* The decoded responses an upstream may return to a query: the query's
\* header id or 0 (RFC 8484 clients send 0; a server echoes what it got).
UpstreamPackets(query) == [id : {0, query.id}, answers : UpstreamAnswers]

\* --------------------------------------------------------- pure functions
RECURSIVE JoinQuestions(_)
JoinQuestions(qs) ==
  IF qs = <<>> THEN <<>>
  ELSE LET one == <<"{">> \o qs[1].name \o <<"}">>
       IN IF Len(qs) = 1 THEN one
          ELSE one \o <<",">> \o JoinQuestions(Tail(qs))

\* JSON.stringify(query.questions), as its sequence of tokens.
getCacheKey(query) == <<"[">> \o JoinQuestions(query.questions) \o <<"]">>

\* name.indexOf(pattern): the first 0-based position of pattern, or -1.
indexOf(name, pattern) ==
  LET hits == { i \in 0..(Len(name) - Len(pattern)) :
                  SubSeq(name, i + 1, i + Len(pattern)) = pattern }
  IN IF hits = {} THEN 0 - 1
     ELSE CHOOSE i \in hits : \A j \in hits : i <= j

\* query.questions.find((q) => q.name.indexOf(process.env.OMIT) != -1)
MatchesOmit(query) ==
  \E i \in 1..Len(query.questions) :
    indexOf(query.questions[i].name, OMIT) # 0 - 1

\* The packet returned as it was stored.
updateTTLsNoDecay(packet, elapsedSeconds) == packet

\* updateTTLs(packet, elapsedSeconds)
updateTTLs(packet, elapsedSeconds) ==
  [packet EXCEPT !.answers =
     [i \in 1..Len(packet.answers) |->
        [packet.answers[i] EXCEPT !.ttl = Max(0, @ - elapsedSeconds)]]]

\* JSON.parse(JSON.stringify(packet)): numbers and strings survive, a Buffer
\* comes back as a plain object {type: "Buffer", data: [...]}.
JSONCopy(packet) ==
  [packet EXCEPT !.answers =
     [i \in 1..Len(packet.answers) |->
        [packet.answers[i] EXCEPT
           !.data = IF @ = "buffer" THEN "object" ELSE @]]]

\* encode(packet) throws when an rdata is neither a string nor a Buffer.
encodeThrows(packet) ==
  \E i \in 1..Len(packet.answers) : packet.answers[i].data = "object"

\* The comparison with <= in the place of <.
StillValidAtExpiry(entry, elapsedSeconds) ==
  \A i \in 1..Len(entry.packet.answers) :
    elapsedSeconds <= entry.packet.answers[i].ttl

\* elapsedSeconds < Math.min(...originalTTLs); Math.min() of no arguments is
\* Infinity, and every elapsedSeconds is less than Infinity.
StillValid(entry, elapsedSeconds) ==
  \A i \in 1..Len(entry.packet.answers) :
    elapsedSeconds < entry.packet.answers[i].ttl

\* (Date.now() - cached.timestamp) / 1000
ElapsedSeconds(entry, t) == Whole(t - entry.timestamp) \div MsPerSec


\* The id left as it was.
KeepId(packet, query) == packet

\* cachedPacket.id = query.id, dohPacket.id = query.id
SetId(packet, query) == [packet EXCEPT !.id = query.id]

\* The packet the cache-hit branch hands to encode.
CachedPacket(entry, query, elapsedSeconds) ==
  SetId(updateTTLs(JSONCopy(entry.packet), elapsedSeconds), query)

\* ---------------------------------------------------------------- state
VARIABLES
  now,        \* Date.now(), ms
  cache,      \* the cache object: a function from the keys present to entries
  running,    \* jobs the limiter has started and that have not settled
  lastStart,  \* Date.now() when the limiter last started a job
  received,   \* datagrams received so far
  task,       \* per handler: the locals and position of its async callback
  server      \* the listening socket: "listening", or "closed"

vars == <<now, cache, running, lastStart, received, task, server>>

\* A handler's locals and effects: dgram, the number of the datagram it
\* handles; sent, the packets it passed to server.send; dohCalls, the fetch
\* calls made for it; cacheOps, its writes to the cache object; lookup, the
\* branch the cache check took ("miss", "hit", "hitError" when the hit branch
\* threw and line 136 logged it, "stale"); via, the branch that produced or
\* is producing its answer. The endpoint picked at line 176 changes nothing
\* the code does afterwards and is not kept.
IdleTask ==
  [ pc |-> "Idle", dgram |-> 0, query |-> [id |-> 0, questions |-> <<>>],
    lookup |-> "none", attempt |-> 0, wakeAt |-> 0, err |-> "none", via |-> "none",
    sent |-> <<>>, dohCalls |-> 0, cacheOps |-> {} ]

\* The state once server.bind(53) has ended: the socket listens, or the bind
\* failed and the "error" handler closed it.
Init ==
  /\ now = 0
  /\ cache = <<>>
  /\ running = 0
  /\ lastStart = 0 - minTime
  /\ received = 0
  /\ task = [h \in Handlers |-> IdleTask]
  /\ server \in {"listening", "closed"}

\* A removal that empties the cache.
DeleteEverything(c, key) == <<>>

\* delete cache[cacheKey]
Delete(c, key) == [k \in (DOMAIN c) \ {key} |-> c[k]]

\* A store that keeps the entry a key already has.
PutIfAbsent(c, key, entry) ==
  IF key \in DOMAIN c THEN c
  ELSE [k \in (DOMAIN c) \cup {key} |-> IF k = key THEN entry ELSE c[k]]

\* cache[cacheKey] = entry
Put(c, key, entry) ==
  [k \in (DOMAIN c) \cup {key} |-> IF k = key THEN entry ELSE c[k]]

\* A catch that answers the client with an error reply.
CatchAndReply(t, e) ==
  [t EXCEPT !.pc = "Aborted", !.err = e,
            !.sent = Append(@, [id |-> t.query.id, answers |-> <<>>])]

\* catch (error) { console.error(...) }: the handler ends without a reply.
Catch(t, e) == [t EXCEPT !.pc = "Aborted", !.err = e]

\* Lines 141-188 up to the first await: the secondary resolver for a query
\* with a matching name, fetchWithRetry on a random endpoint otherwise.
Resolve(t) ==
  IF MatchesOmit(t.query)
  THEN [t EXCEPT !.pc = "Await8888", !.via = "8888"]
  ELSE [t EXCEPT !.pc = "Queued", !.via = "doh", !.attempt = 1]

\* The cache-hit branch without its return: the handler goes on to resolve.
NoReturnAfterCachedSend(t) == Resolve(t)

\* The return that follows server.send in the cache-hit branch.
ReturnAfterCachedSend(t) == [t EXCEPT !.pc = "Done", !.via = "cache"]

\* A cache-check catch that gives the query up.
CatchCacheErrorAborts(t) == Catch(t, "CacheError")

\* catch (e) { console.error(e) }: the handler continues without the cache.
CatchCacheError(t) == Resolve(t)

\* A hit served from the stored object itself: the decayed ttls and the
\* query's id are written into the entry.
CacheAfterHitAliased(c, key, sentPacket) == [c EXCEPT ![key].packet = sentPacket]

\* The cache object after a hit: updateTTLs worked on a copy, the entry is as
\* it was stored.
CacheAfterHit(c, key, sentPacket) == c

\* Lines 109-138 and what follows them up to the first await.
CacheCheck(t, c, clock) ==
  LET key == getCacheKey(t.query) IN
  IF key \notin DOMAIN c
  THEN [task |-> Resolve([t EXCEPT !.lookup = "miss"]), cache |-> c]
  ELSE
    LET entry == c[key]
        el == ElapsedSeconds(entry, clock)
        p == CachedPacket(entry, t.query, el)
    IN IF StillValid(entry, el)
       THEN IF encodeThrows(p)
            THEN [task |-> CatchCacheError([t EXCEPT !.lookup = "hitError"]),
                  cache |-> c]
            ELSE [task |-> ReturnAfterCachedSend(
                             [t EXCEPT !.lookup = "hit", !.sent = Append(@, p)]),
                  cache |-> CacheAfterHit(c, key, p)]
       ELSE [task |-> Resolve([t EXCEPT !.lookup = "stale",
                                        !.cacheOps = @ \cup {"delete"}]),
             cache |-> Delete(c, key)]

\* server.on("message"), up to its first await.
OnMessage(n, msg, c, clock) ==
  IF ~msg.ok
  THEN [task |-> [IdleTask EXCEPT !.dgram = n, !.pc = "Aborted",
                                  !.err = "DecodeError"],
        cache |-> c]
  ELSE CacheCheck([IdleTask EXCEPT !.dgram = n, !.query = msg.query], c, clock)

Receive(h, msg) ==
  /\ server = "listening"
  /\ received = h - 1
  /\ received' = h
  /\ LET r == OnMessage(h, msg, cache, now) IN
       /\ task' = [task EXCEPT ![h] = r.task]
       /\ cache' = r.cache
  /\ UNCHANGED <<now, running, lastStart, server>>

\* A resolve branch that replies and stores nothing.
SendWithoutStore(t, dohPacket, c, clock) ==
  [task |-> [t EXCEPT !.pc = "Done",
                      !.sent = Append(@, SetId(dohPacket, t.query))],
   cache |-> c]

\* Lines 205-216: store, overwrite the id (of the stored object too: the entry
\* holds dohPacket itself), encode and send.
StoreAndSend(t, dohPacket, c, clock) ==
  LET p == SetId(dohPacket, t.query) IN
  [task |-> [t EXCEPT !.pc = "Done", !.sent = Append(@, p),
                      !.cacheOps = @ \cup {"store"}],
   cache |-> Put(c, getCacheKey(t.query), [packet |-> p, timestamp |-> clock])]

\* A limiter that spaces the starts and does not count the running jobs.
CanStartSpacedOnly == now - lastStart >= minTime

\* A limiter that counts the running jobs and does not space the starts.
CanStartUnspaced == running < maxConcurrent

\* A limiter wrapped around the whole of fetchWithRetry: a call that waits
\* out its backoff or reads its body still holds the only slot.
CanStartNoCallPending ==
  /\ running < maxConcurrent /\ now - lastStart >= minTime
  /\ \A h \in Handlers : task[h].pc \notin {"Backoff", "Body"}

\* The limiter starts a queued job when fewer than maxConcurrent are running
\* and minTime has passed since the last start.
CanStart == running < maxConcurrent /\ now - lastStart >= minTime

\* limiter.schedule runs fetch(url, ...) for a handler.
Admit(h) ==
  /\ task[h].pc = "Queued"
  /\ CanStart
  /\ task' = [task EXCEPT ![h].pc = "InFlight", ![h].dohCalls = @ + 1]
  /\ running' = running + 1
  /\ lastStart' = now
  /\ UNCHANGED <<now, cache, received, server>>

\* The catch block of fetchWithRetry: the warning reads questions[0].name,
\* which throws a TypeError when the query has no question.
FetchFailed(t, clock) ==
  IF t.query.questions = <<>> THEN Catch(t, "TypeError")
  ELSE IF t.attempt = retries THEN Catch(t, "FetchError")
  ELSE [t EXCEPT !.pc = "Backoff", !.wakeAt = clock + backoff]

\* fetch rejects: a transport error, or AbortSignal.timeout fires.
FetchFail(h) ==
  /\ task[h].pc = "InFlight"
  /\ running' = running - 1
  /\ task' = [task EXCEPT ![h] = FetchFailed(@, now)]
  /\ UNCHANGED <<now, cache, lastStart, received, server>>

\* The 500 ms timer fires and the loop makes its next attempt.
Retry(h) ==
  /\ task[h].pc = "Backoff"
  /\ now >= task[h].wakeAt
  /\ task' = [task EXCEPT ![h].pc = "Queued", ![h].attempt = @ + 1,
                          ![h].wakeAt = 0]
  /\ UNCHANGED <<now, cache, running, lastStart, received, server>>

\* A non-success status taken as a failed attempt of the retry loop.
FetchResolveRetriesStatus(h, ok) ==
  /\ task[h].pc = "InFlight"
  /\ running' = running - 1
  /\ task' = [task EXCEPT ![h] =
       IF ok THEN [@ EXCEPT !.pc = "Body"]
       ELSE [FetchFailed(@, now) EXCEPT !.err = "StatusError"]]
  /\ UNCHANGED <<now, cache, lastStart, received, server>>

\* fetch resolves with a response: lines 190-194 up to await arrayBuffer().
FetchResolve(h, ok) ==
  /\ task[h].pc = "InFlight"
  /\ running' = running - 1
  /\ task' = [task EXCEPT ![h] =
       IF ok THEN [@ EXCEPT !.pc = "Body"] ELSE Catch(@, "StatusError")]
  /\ UNCHANGED <<now, cache, lastStart, received, server>>

\* response.arrayBuffer() rejects.
BodyFail(h) ==
  /\ task[h].pc = "Body"
  /\ task' = [task EXCEPT ![h] = Catch(@, "BodyError")]
  /\ UNCHANGED <<now, cache, running, lastStart, received, server>>

\* The body arrives and decode throws: logged, return.
BodyUndecodable(h) ==
  /\ task[h].pc = "Body"
  /\ task' = [task EXCEPT ![h].pc = "Aborted", ![h].err = "DohDecodeError"]
  /\ UNCHANGED <<now, cache, running, lastStart, received, server>>

\* The body arrives and decodes.
BodyDecoded(h, dohPacket) ==
  /\ task[h].pc = "Body"
  /\ LET r == StoreAndSend(task[h], dohPacket, cache, now) IN
       /\ task' = [task EXCEPT ![h] = r.task]
       /\ cache' = r.cache
  /\ UNCHANGED <<now, running, lastStart, received, server>>

\* Lines 171-203 once the secondary resolver's promise has a value: a Buffer
\* is truthy whatever its bytes; a value that is not sends the query to DoH.
AfterSecondary(t, resolved, c, clock) ==
  IF ~resolved.truthy
  THEN [task |-> [t EXCEPT !.pc = "Queued", !.via = "doh", !.attempt = 1],
        cache |-> c]
  ELSE IF ~resolved.decodes THEN [task |-> Catch(t, "DecodeError8888"), cache |-> c]
  ELSE StoreAndSend(t, resolved.packet, c, clock)

\* client.on("message"): resolve(response) with the datagram received.
SecondaryReply(h, decodes, packet) ==
  /\ task[h].pc = "Await8888"
  /\ LET r == AfterSecondary(task[h],
                [truthy |-> TRUE, decodes |-> decodes, packet |-> packet],
                cache, now) IN
       /\ task' = [task EXCEPT ![h] = r.task]
       /\ cache' = r.cache
  /\ UNCHANGED <<now, running, lastStart, received, server>>

\* An error handler that settles the promise with no value, so that line 171
\* sends the query to DoH.
SecondarySocketErrorResolves(t) ==
  [t EXCEPT !.pc = "Queued", !.via = "doh", !.attempt = 1,
            !.err = "ClientError8888"]

\* client.on("error"): logged, the socket is closed, the promise is never
\* settled.
SecondarySocketError(t) == [t EXCEPT !.pc = "Hung", !.err = "ClientError8888"]

\* The callback of client.send gets an error: the same.
SecondarySendError(t) == [t EXCEPT !.pc = "Hung", !.err = "SendError8888"]

\* A secondary-socket error handler that closes the listening socket.
SocketErrorClosesServer(h) ==
  /\ task[h].pc = "Await8888"
  /\ task' = [task EXCEPT ![h] = SecondarySocketError(@)]
  /\ server' = "closed"
  /\ UNCHANGED <<now, cache, running, lastStart, received>>

SocketError(h) ==
  /\ task[h].pc = "Await8888"
  /\ task' = [task EXCEPT ![h] = SecondarySocketError(@)]
  /\ UNCHANGED <<now, cache, running, lastStart, received, server>>

SendError(h) ==
  /\ task[h].pc = "Await8888"
  /\ task' = [task EXCEPT ![h] = SecondarySendError(@)]
  /\ UNCHANGED <<now, cache, running, lastStart, received, server>>

\* Time passes.
Tick ==
  /\ now + TickMs <= MaxNow
  /\ now' = now + TickMs
  /\ UNCHANGED <<cache, running, lastStart, received, task, server>>

Next ==
  \/ \E h \in Handlers : \E msg \in Datagrams(h) : Receive(h, msg)
  \/ \E h \in Handlers : Admit(h)
  \/ \E h \in Handlers : FetchFail(h)
  \/ \E h \in Handlers : Retry(h)
  \/ \E h \in Handlers, ok \in BOOLEAN : FetchResolve(h, ok)
  \/ \E h \in Handlers : BodyFail(h)
  \/ \E h \in Handlers : BodyUndecodable(h)
  \/ \E h \in Handlers : \E p \in UpstreamPackets(task[h].query) : BodyDecoded(h, p)
  \/ \E h \in Handlers : \E d \in BOOLEAN, p \in UpstreamPackets(task[h].query) :
       SecondaryReply(h, d, p)
  \/ \E h \in Handlers : SocketError(h)
  \/ \E h \in Handlers : SendError(h)
  \/ Tick

Spec == Init /\ [][Next]_vars

\* The server some time into its life: an earlier query for PlainName was
\* resolved and stored (lines 206-209) at the instant the clock starts from,
\* and its handler has ended.
WarmQuery == [id |-> 0, questions |-> << [name |-> PlainName] >>]

WarmCache ==
  Put(<<>>, getCacheKey(WarmQuery),
      [packet |-> SetId([id |-> 0, answers |-> << ARecord(MaxTTL), ARecord(1) >>],
                        WarmQuery),
       timestamp |-> 0])

InitWarm ==
  /\ now = 0
  /\ cache = WarmCache
  /\ running = 0
  /\ lastStart = 0 - minTime
  /\ received = 0
  /\ task = [h \in Handlers |-> IdleTask]
  /\ server = "listening"

SpecWarm == InitWarm /\ [][Next]_vars

\* ------------------------------------------------------------ the claims
\* Handler h runs its synchronous part (decode, cache check) in this step.
Receives(h) == received = h - 1 /\ received' = h

\* The same, for a datagram that decoded.
Looks(h) == Receives(h) /\ task'[h].lookup # "none"

\* The key handler h looked up or will store under.
KeyOf(h) == getCacheKey(task[h].query)

\* Whole seconds in a number of milliseconds.
Floor(ms) == ms \div MsPerSec

\* Milliseconds between the store of an entry and time t.
ElapsedMs(entry, t) == t - entry.timestamp

\* A ttl of the model (seconds, in thousandths) as milliseconds.
TtlMs(answer) == (answer.ttl * MsPerSec) \div MsPerSec

\* elapsedSeconds < min(ttl over the answers), the minimum of no ttl being
\* above every elapsed time.
FreshAt(entry, t) ==
  \A i \in 1..Len(entry.packet.answers) :
    ElapsedMs(entry, t) < TtlMs(entry.packet.answers[i])

\* C1: on every cache hit, each answer of the reply has
\* ttl = max(0, original ttl - floor(elapsedSeconds)), a whole number.
C1_HitTtlIsOriginalMinusFloor ==
  [][\A h \in Handlers :
       (Receives(h) /\ task'[h].lookup = "hit") =>
         LET entry == cache[getCacheKey(task'[h].query)]
             reply == task'[h].sent[1]
         IN \A i \in 1..Len(entry.packet.answers) :
              reply.answers[i].ttl =
                Whole(Max(0, Floor(TtlMs(entry.packet.answers[i]))
                             - Floor(ElapsedMs(entry, now))))]_vars

\* C2: every reply a handler sends carries the header id of its query.
C2_ReplyCarriesQueryId ==
  \A h \in Handlers :
    \A i \in 1..Len(task[h].sent) : task[h].sent[i].id = task[h].query.id

\* A hit served from an entry that another query, with another id, stored.
C2_Witness ==
  \E h \in Handlers :
    /\ task[h].lookup = "hit" /\ task[h].pc = "Done"
    /\ Len(task[h].sent) = 1
    /\ KeyOf(h) \in DOMAIN cache
    /\ cache[KeyOf(h)].packet.id # task[h].query.id

\* Every rdata of the entry is a string, which a JSON copy leaves encodable.
Reencodes(entry) ==
  \A i \in 1..Len(entry.packet.answers) :
    entry.packet.answers[i].data = "string"

\* The handler's query went, or is going, to an upstream resolver.
WentUpstream(t) ==
  t.via \in {"doh", "8888"} /\ t.pc \in {"Queued", "Await8888"}

\* C3 as stated: an entry is served as a hit exactly while
\* elapsedSeconds < min(ttl); the first lookup at or after that removes the
\* key and sends the query upstream.
C3_HitExactlyWhileFresh ==
  [][\A h \in Handlers :
       (Looks(h) /\ getCacheKey(task'[h].query) \in DOMAIN cache) =>
         LET key == getCacheKey(task'[h].query)
             fresh == FreshAt(cache[key], now)
         IN /\ (task'[h].lookup = "hit" /\ Len(task'[h].sent) = 1) <=> fresh
            /\ ~fresh => key \notin DOMAIN cache' /\ WentUpstream(task'[h])]_vars

\* C3 amended: an entry is served as a hit exactly while
\* elapsedSeconds < min(ttl) and its copy re-encodes; within that time an
\* entry whose copy does not re-encode stays in place and the query goes
\* upstream; the first lookup at or after min(ttl) removes the key and sends
\* the query upstream; a lookup of an absent key goes upstream, and an
\* absent key comes back only by the store of a handler that resolved it.
C3_HitWhileFreshAndReencodable ==
  [][/\ \A h \in Handlers :
          Looks(h) =>
            LET key == getCacheKey(task'[h].query) IN
            IF key \in DOMAIN cache
            THEN LET fresh == FreshAt(cache[key], now)
                     served == task'[h].lookup = "hit" /\ Len(task'[h].sent) = 1
                 IN /\ served <=> (fresh /\ Reencodes(cache[key]))
                    /\ served => task'[h].pc = "Done"
                    /\ fresh => cache' = cache
                    /\ ~served => WentUpstream(task'[h])
                    /\ ~fresh => cache' = Delete(cache, key)
            ELSE WentUpstream(task'[h]) /\ cache' = cache
     /\ \A k \in (DOMAIN cache') \ (DOMAIN cache) :
          \E h \in Handlers :
            /\ KeyOf(h) = k
            /\ task[h].pc \in {"Body", "Await8888"} /\ task'[h].pc = "Done"]_vars

\* A lookup found its entry expired, removed it, and the key is still absent.
C3_Witness ==
  \E h \in Handlers :
    /\ task[h].lookup = "stale" /\ "delete" \in task[h].cacheOps
    /\ KeyOf(h) \notin DOMAIN cache

\* C4 as stated, for the entries whose copy re-encodes: a repeat query within
\* the minimum ttl is answered from the cache, with no upstream call, and
\* every ttl of the reply is strictly less than the ttl stored from the first
\* reply.
C4_RepeatServedWithSmallerTtl ==
  [][\A h \in Handlers :
       (Looks(h) /\ getCacheKey(task'[h].query) \in DOMAIN cache
          /\ FreshAt(cache[getCacheKey(task'[h].query)], now)
          /\ Reencodes(cache[getCacheKey(task'[h].query)])
          /\ cache[getCacheKey(task'[h].query)].packet.answers # <<>>) =>
         LET entry == cache[getCacheKey(task'[h].query)] IN
         /\ task'[h].lookup = "hit" /\ task'[h].pc = "Done"
         /\ task'[h].dohCalls = 0 /\ task'[h].via = "cache"
         /\ Len(task'[h].sent) = 1
         /\ \A i \in 1..Len(entry.packet.answers) :
              task'[h].sent[1].answers[i].ttl < entry.packet.answers[i].ttl]_vars

\* C4 amended: a repeat query within the minimum ttl, for an entry whose copy
\* re-encodes, is answered from the cache with no upstream call, then or
\* later; every ttl of the reply is at most the stored ttl, and strictly less
\* once any time has passed since the store.
C4_RepeatServedWithDecayedTtl ==
  /\ [][\A h \in Handlers :
          (Looks(h) /\ getCacheKey(task'[h].query) \in DOMAIN cache
             /\ FreshAt(cache[getCacheKey(task'[h].query)], now)
             /\ Reencodes(cache[getCacheKey(task'[h].query)])) =>
            LET entry == cache[getCacheKey(task'[h].query)] IN
            /\ task'[h].lookup = "hit" /\ task'[h].pc = "Done"
            /\ task'[h].dohCalls = 0 /\ task'[h].via = "cache"
            /\ Len(task'[h].sent) = 1
            /\ Len(task'[h].sent[1].answers) = Len(entry.packet.answers)
            /\ \A i \in 1..Len(entry.packet.answers) :
                 /\ task'[h].sent[1].answers[i].ttl <= entry.packet.answers[i].ttl
                 /\ ElapsedMs(entry, now) > 0 =>
                      task'[h].sent[1].answers[i].ttl < entry.packet.answers[i].ttl]_vars
  /\ [](\A h \in Handlers :
          task[h].lookup = "hit" =>
            task[h].pc = "Done" /\ task[h].dohCalls = 0 /\ task[h].via = "cache")

\* A repeat query answered from the cache with ttls below the stored ones.
C4_Witness ==
  \E h \in Handlers :
    /\ task[h].lookup = "hit" /\ task[h].pc = "Done" /\ task[h].dohCalls = 0
    /\ KeyOf(h) \in DOMAIN cache
    /\ Len(task[h].sent) = 1 /\ Len(task[h].sent[1].answers) > 0
    /\ \A i \in 1..Len(task[h].sent[1].answers) :
         task[h].sent[1].answers[i].ttl < cache[KeyOf(h)].packet.answers[i].ttl

\* C5: an entry with no answer record is never served as a hit.
C5_EmptyEntryNeverServed ==
  \A h \in Handlers :
    (task[h].lookup = "hit" /\ Len(task[h].sent) > 0) =>
      Len(task[h].sent[1].answers) > 0

\* C6: a handler sends at most once: exactly once when it ends Done, never
\* when it ends Aborted, and not before it ends.
C6_AtMostOneSend ==
  \A h \in Handlers :
    /\ Len(task[h].sent) <= 1
    /\ task[h].pc = "Done" => Len(task[h].sent) = 1
    /\ task[h].pc # "Done" => Len(task[h].sent) = 0

\* A hit attempt threw, the handler fell back to upstream and replied once.
C6_Witness ==
  \E h \in Handlers :
    task[h].lookup = "hitError" /\ task[h].pc = "Done" /\ Len(task[h].sent) = 1

\* The handler's fetchWithRetry call failed after all its attempts.
FailedAllAttempts(t) ==
  t.pc = "Aborted" /\ t.err = "FetchError" /\ t.dohCalls = retries

\* C7 as stated: when the DoH call fails all 3 attempts, no reply is sent and
\* the handler has added, changed or removed no key.
C7_FailureLeavesCacheUntouched ==
  \A h \in Handlers :
    FailedAllAttempts(task[h]) =>
      task[h].sent = <<>> /\ task[h].cacheOps = {}

\* C7 amended: when the DoH call fails all 3 attempts, no reply is sent and
\* the handler has added or changed no key; the one change it can have made
\* is the removal, at its lookup, of the expired entry of the query's key.
C7_FailureOnlyEvictsExpired ==
  /\ [](\A h \in Handlers :
          FailedAllAttempts(task[h]) =>
            /\ task[h].sent = <<>>
            /\ "store" \notin task[h].cacheOps
            /\ "delete" \in task[h].cacheOps => task[h].lookup = "stale")
  /\ [][\A h \in Handlers :
          /\ (Looks(h) /\ task'[h].via = "doh" /\ cache' # cache) =>
               LET key == getCacheKey(task'[h].query) IN
               /\ key \in DOMAIN cache /\ ~FreshAt(cache[key], now)
               /\ cache' = Delete(cache, key)
               /\ task'[h].lookup = "stale"
          /\ (task[h].via = "doh" /\ task'[h] # task[h]
                /\ task'[h].pc \in {"Queued", "InFlight", "Backoff", "Aborted"}) =>
               cache' = cache]_vars

\* The DoH call failed 3 times after the lookup had removed an expired entry.
C7_Witness ==
  \E h \in Handlers :
    FailedAllAttempts(task[h]) /\ task[h].cacheOps = {"delete"}

\* C8: an error leaves fetchWithRetry only after exactly 3 failed attempts,
\* and no call makes more than 3.
C8_ErrorOnlyAfterThreeAttempts ==
  \A h \in Handlers :
    /\ task[h].dohCalls <= retries
    /\ (task[h].pc = "Aborted" /\ task[h].err \in {"FetchError", "TypeError"}) =>
         task[h].dohCalls = retries

\* C9: at most one fetch is in flight at any moment.
C9_AtMostOneInFlight ==
  Cardinality({h \in Handlers : task[h].pc = "InFlight"}) <= maxConcurrent

\* One handler's fetch is in flight while another waits at the limiter.
C9_Witness ==
  \E h, g \in Handlers :
    task[h].pc = "InFlight" /\ task[g].pc = "Queued" /\ now - lastStart >= minTime

\* Some question of the query has a name that contains the OMIT label.
HasOmitName(query) ==
  \E i \in 1..Len(query.questions) :
    \E j \in 1..Len(query.questions[i].name) :
      <<query.questions[i].name[j]>> = OMIT

\* C10: a query with a matching name never reaches the DoH path, whatever
\* the secondary resolver does.
C10_OmitNeverUsesDoh ==
  \A h \in Handlers :
    (task[h].lookup # "none" /\ HasOmitName(task[h].query)) =>
      /\ task[h].dohCalls = 0
      /\ task[h].via # "doh"
      /\ task[h].pc \notin {"Queued", "InFlight", "Backoff", "Body"}

\* The secondary resolver failed or sent bytes that do not decode.
C10_Witness ==
  \E h, g \in Handlers :
    /\ h # g
    /\ HasOmitName(task[h].query) /\ task[h].pc = "Hung"
    /\ HasOmitName(task[g].query) /\ task[g].err = "DecodeError8888"

\* Handler h ends its upstream resolution with a reply in this step.
Stores(h) == task[h].pc # "Done" /\ task'[h].pc = "Done" /\ task'[h].via # "cache"

\* The entry handler h wrote: the message it sent, stamped with the store time.
StoredBy(h, t) == [packet |-> task[h].sent[Len(task[h].sent)], timestamp |-> t]

\* C11: a query that finds no entry for its key goes upstream on its own,
\* whatever other handler is resolving the same key; each one that succeeds
\* overwrites the entry with its message and the time of its store, so the
\* entry is that of the last store.
C11_LastStoreWins ==
  /\ [][\A h \in Handlers :
         /\ (Receives(h) /\ task'[h].lookup = "miss") =>
              /\ task'[h].pc \in {"Queued", "Await8888"}
              /\ cache' = cache
         /\ Stores(h) =>
              /\ IF task[h].via = "doh" THEN task[h].dohCalls >= 1
                                         ELSE task[h].pc = "Await8888"
              /\ KeyOf(h) \in DOMAIN cache'
              /\ cache'[KeyOf(h)] = StoredBy(h, now)'
              /\ \A k \in DOMAIN cache : k # KeyOf(h) =>
                    k \in DOMAIN cache' /\ cache'[k] = cache[k]]_vars
  /\ [](\A h, g \in Handlers :
         (/\ h # g /\ KeyOf(h) = KeyOf(g)
          /\ task[h].pc = "Done" /\ task[g].pc = "Done"
          /\ task[h].lookup = "miss" /\ task[g].lookup = "miss"
          /\ \A l \in Handlers \ {h, g} :
               task[l].cacheOps = {} \/ KeyOf(l) # KeyOf(h)) =>
           /\ KeyOf(h) \in DOMAIN cache
           /\ \E l \in {h, g} : cache[KeyOf(h)].packet = task[l].sent[1])

\* Two queries with one key both missed and both stored; the one received
\* first stored last, over the entry of the other.
C11_Witness ==
  /\ task[1].lookup = "miss" /\ task[2].lookup = "miss"
  /\ KeyOf(1) = KeyOf(2)
  /\ task[1].pc = "Done" /\ task[2].pc = "Done"
  /\ task[1].sent[1].answers # task[2].sent[1].answers
  /\ cache[KeyOf(1)].packet = task[1].sent[1]
  /\ cache[KeyOf(1)].timestamp > 0

\* Handler h is suspended in its upstream resolution.
Suspended(h) ==
  task[h].pc \in {"Queued", "InFlight", "Backoff", "Body", "Await8888", "Hung"}

\* C12 as stated: while one handler's attempt is in flight, the attempt of
\* another handler whose spacing has elapsed can start.
C12_NeverWaitsForAnothersAttempt ==
  \A h, g \in Handlers :
    (/\ h # g /\ task[h].pc = "InFlight" /\ task[g].pc = "Queued"
     /\ now - lastStart >= minTime) => ENABLED Admit(g)

\* C12, amended: while a handler is suspended the next datagram is still
\* dispatched, a hit is answered in the step that receives it, the wait on
\* the secondary resolver and the reading of a body depend on no other
\* handler, and a DoH attempt waits for nothing but the attempt in flight and
\* the spacing: not for another handler's backoff, body or secondary wait.
C12_WaitsOnlyForAttemptInFlight ==
  /\ [](\A h, g \in Handlers :
         (h # g /\ Suspended(h)) =>
           /\ (server = "listening" /\ received = g - 1) =>
                \A msg \in Datagrams(g) : ENABLED Receive(g, msg)
           /\ (/\ task[g].pc = "Queued"
               /\ \A l \in Handlers : task[l].pc # "InFlight"
               /\ now - lastStart >= minTime) => ENABLED Admit(g)
           /\ task[g].pc = "Body" =>
                \A p \in UpstreamPackets(task[g].query) : ENABLED BodyDecoded(g, p)
           /\ task[g].pc = "Await8888" =>
                \A p \in UpstreamPackets(task[g].query) :
                  ENABLED SecondaryReply(g, TRUE, p))
  /\ [][\A h, g \in Handlers :
         (h # g /\ Suspended(h) /\ Receives(g) /\ task'[g].lookup = "hit") =>
           task'[g].pc = "Done" /\ Len(task'[g].sent) = 1]_vars

\* The second query's attempt is in flight while the first waits out the
\* backoff of its failed attempt.
C12_Witness ==
  /\ task[1].pc = "Backoff" /\ now < task[1].wakeAt
  /\ task[2].pc = "InFlight"

\* C13: once bound, the listener is closed by no step of any handler, and
\* takes the next datagram whatever errors the handlers so far ended with.
C13_ListenerSurvivesQueryErrors ==
  /\ [][server = "listening" => server' = "listening"]_vars
  /\ [](\A h \in Handlers :
         (server = "listening" /\ received = h - 1) =>
           \A msg \in Datagrams(h) : ENABLED Receive(h, msg))

\* A malformed datagram, then a query whose upstream failed three times (or
\* whose secondary socket failed), and the socket still listens.
C13_Witness ==
  /\ server = "listening"
  /\ task[1].err = "DecodeError"
  /\ task[2].err \in {"FetchError", "ClientError8888", "SendError8888"}

\* C14: a hit whose copy cannot be re-encoded sends nothing and leaves the
\* cache alone, the handler goes on to resolve upstream; when that succeeds it
\* sends one reply and the entry of its key becomes the fresh response.
C14_FailedHitFallsBackToUpstream ==
  /\ [][\A h \in Handlers :
         /\ (Receives(h) /\ task'[h].lookup = "hitError") =>
              /\ task'[h].pc \in {"Queued", "Await8888"}
              /\ task'[h].sent = <<>> /\ task'[h].err = "none"
              /\ cache' = cache
         /\ (task[h].lookup = "hitError" /\ Stores(h)) =>
              /\ Len(task'[h].sent) = 1
              /\ KeyOf(h) \in DOMAIN cache'
              /\ cache'[KeyOf(h)] = StoredBy(h, now)']_vars
  /\ [](\A h \in Handlers :
         task[h].lookup = "hitError" =>
           /\ task[h].via \in {"doh", "8888"}
           /\ task[h].pc = "Done" =>
                Len(task[h].sent) = 1 /\ "store" \in task[h].cacheOps)

\* The entry held a TXT answer that could not be served; the handler that hit
\* it fetched A records, replied with them and stored them over the entry.
C14_Witness ==
  \E h \in Handlers :
    /\ task[h].lookup = "hitError" /\ task[h].pc = "Done"
    /\ KeyOf(h) \in DOMAIN cache
    /\ cache[KeyOf(h)].packet = task[h].sent[1]
    /\ Len(task[h].sent[1].answers) = 2

\* The entry of key k is created or replaced in this step.
Written(k) ==
  /\ k \in DOMAIN cache'
  /\ k \in DOMAIN cache => cache'[k] # cache[k]

\* C15: an entry is written only by the step in which a handler gets its
\* decoded upstream response, under that handler's key and holding the message
\* it sends in the same step; every such step writes; a handler that ended in
\* an error, or was answered from the cache, wrote nothing.
C15_StoreIffDecodedUpstreamResponse ==
  /\ [][/\ \A k \in DOMAIN cache' :
           Written(k) =>
             \E h \in Handlers :
               /\ Stores(h) /\ task[h].pc \in {"Body", "Await8888"}
               /\ k = KeyOf(h)
               /\ cache'[k] = StoredBy(h, now)'
        /\ \A h \in Handlers :
             Stores(h) =>
               /\ "store" \in task'[h].cacheOps
               /\ KeyOf(h) \in DOMAIN cache'
               /\ cache'[KeyOf(h)] = StoredBy(h, now)'
               /\ Len(task'[h].sent) = 1]_vars
  /\ [](\A h \in Handlers :
         "store" \in task[h].cacheOps <=>
           (task[h].pc = "Done" /\ task[h].via \in {"doh", "8888"}))

\* One query was resolved and stored; another, with another key, got bytes
\* from upstream that do not decode (or a non-success status, or three failed
\* attempts) and left no entry.
C15_Witness ==
  \E h, g \in Handlers :
    /\ h # g
    /\ task[h].pc = "Done" /\ task[h].via = "doh"
    /\ KeyOf(h) \in DOMAIN cache /\ cache[KeyOf(h)].packet = task[h].sent[1]
    /\ task[g].err \in {"DohDecodeError", "StatusError", "FetchError", "DecodeError8888"}
    /\ KeyOf(g) \notin DOMAIN cache

\* C16: the step that serves a hit leaves the cache as it was, and the ttls
\* of the reply are those of the entry as stored less the time since its
\* store; as long as no handler stored or deleted, the cache is the one the
\* run started with, however many hits were served.
C16_HitLeavesCacheUnchanged ==
  /\ [][\A h \in Handlers :
         (Receives(h) /\ task'[h].lookup = "hit") =>
           /\ cache' = cache
           /\ LET entry == cache'[getCacheKey(task'[h].query)]
                  reply == task'[h].sent[1]
              IN /\ Len(reply.answers) = Len(entry.packet.answers)
                 /\ \A i \in 1..Len(reply.answers) :
                      reply.answers[i].ttl =
                        Max(0, entry.packet.answers[i].ttl
                               - Whole(now - entry.timestamp) \div MsPerSec)]_vars
  /\ []((\A h \in Handlers : task[h].cacheOps = {}) => cache = WarmCache)

\* Two hits on the entry, both some time after its store: the second reply
\* has the ttls of the first, not ttls decayed twice, and the entry is as
\* stored.
C16_Witness ==
  /\ task[1].lookup = "hit" /\ task[2].lookup = "hit"
  /\ task[1].sent[1].answers[1].ttl < Whole(MaxTTL)
  /\ task[2].sent[1].answers = task[1].sent[1].answers
  /\ cache = WarmCache

\* Some event that resumes handler h occurs in this step.
Proceeds(h) ==
  \/ Admit(h) \/ FetchFail(h) \/ Retry(h)
  \/ \E ok \in BOOLEAN : FetchResolve(h, ok)
  \/ BodyFail(h) \/ BodyUndecodable(h)
  \/ \E p \in UpstreamPackets(task[h].query) : BodyDecoded(h, p)
  \/ \E d \in BOOLEAN, p \in UpstreamPackets(task[h].query) : SecondaryReply(h, d, p)
  \/ SocketError(h) \/ SendError(h)

\* C17: a handler that has not ended waits for the limiter or for its backoff
\* timer, or some event that resumes it can still occur; no handler is left
\* where nothing will ever end it.
C17_HandlingCanAlwaysEnd ==
  \A h \in Handlers :
    task[h].pc \notin {"Idle", "Done", "Aborted"} =>
      task[h].pc \in {"Queued", "Backoff"} \/ ENABLED Proceeds(h)

\* The attempt of handler h starts in this step.
Starts(h) == task[h].pc # "InFlight" /\ task'[h].pc = "InFlight"

\* C18: an attempt starts only when minTime has passed since the last start
\* of any attempt, and lastStart is the time of that start; a failed attempt
\* that is to be retried sets a timer of backoff ms, and the call's next
\* attempt is queued only when that timer has run out.
C18_StartsSpacedAndRetriesBackedOff ==
  [][/\ \A h \in Handlers :
          /\ Starts(h) =>
               /\ task[h].pc = "Queued"
               /\ now - lastStart >= minTime
               /\ lastStart' = now
               /\ task'[h].dohCalls = task[h].dohCalls + 1
          /\ (task[h].pc = "InFlight" /\ task'[h].pc = "Backoff") =>
               task'[h].wakeAt = now + backoff
          /\ (task[h].pc = "Backoff" /\ task'[h] # task[h]) =>
               /\ task'[h].pc = "Queued" /\ now >= task[h].wakeAt
               /\ task'[h].attempt = task[h].attempt + 1
               /\ task'[h].dohCalls = task[h].dohCalls
          /\ (task[h].pc = "Queued" /\ task'[h] # task[h]) => Starts(h)
     /\ lastStart' # lastStart => \E h \in Handlers : Starts(h)]_vars

\* The first query's second attempt has started and failed; the second query
\* waits at the free limiter for the spacing alone.
C18_Witness ==
  /\ task[1].pc = "Backoff" /\ task[1].dohCalls = 2
  /\ task[2].pc = "Queued"
  /\ running = 0 /\ now - lastStart < minTime

\* C19: the attempt that gets a non-success status is the call's last: the
\* handler ends Aborted in that step with nothing sent and nothing stored,
\* the cache is not touched, and no further attempt is ever made.
C19_StatusErrorIsTerminal ==
  /\ [](\A h \in Handlers :
         task[h].err = "StatusError" =>
           /\ task[h].pc = "Aborted"
           /\ task[h].sent = <<>>
           /\ "store" \notin task[h].cacheOps
           /\ task[h].dohCalls = task[h].attempt)
  /\ [][\A h \in Handlers :
         /\ (task[h].err # "StatusError" /\ task'[h].err = "StatusError") =>
              /\ task[h].pc = "InFlight"
              /\ cache' = cache
              /\ task'[h].attempt = task[h].attempt
         /\ task[h].err = "StatusError" => task'[h] = task[h]]_vars

\* A non-success status on an attempt that was not the last one allowed; the
\* other query was resolved since.
C19_Witness ==
  \E h, g \in Handlers :
    /\ task[h].err = "StatusError" /\ task[h].attempt < retries
    /\ KeyOf(h) \notin DOMAIN cache
    /\ task[g].pc = "Done" /\ task[g].via = "doh"

\* C20: a key leaves the cache only in the step in which a handler looks
\* that key up and finds its entry expired at that instant; the step removes
\* nothing else, so an entry that is still fresh, whoever stored it and
\* whenever, is never removed.
C20_OnlyExaminedExpiredEntryRemoved ==
  [][\A k \in DOMAIN cache :
       /\ k \notin DOMAIN cache' =>
            /\ ~FreshAt(cache[k], now)
            /\ \E h \in Handlers :
                 /\ Receives(h) /\ task'[h].lookup = "stale"
                 /\ getCacheKey(task'[h].query) = k
       /\ FreshAt(cache[k], now) => k \in DOMAIN cache']_vars

\* A lookup removed the expired entry of its key; the fresh entry that the
\* other handler's resolution had stored under another key stayed in the
\* cache, and the handler that removed is still resolving.
C20_Witness ==
  \E h, g \in Handlers :
    /\ h # g
    /\ task[h].lookup = "stale" /\ Suspended(h)
    /\ KeyOf(h) \notin DOMAIN cache
    /\ task[g].pc = "Done" /\ "store" \in task[g].cacheOps
    /\ KeyOf(g) \in DOMAIN cache
    /\ cache[KeyOf(g)].packet.answers # <<>>
    /\ FreshAt(cache[KeyOf(g)], now)

====
